---- MODULE Spec2Model ----
(***************************************************************************)
(* A model of colab_logica.py: the process-wide state (PROJECT,            *)
(* DB_CONNECTION, USER_AUTHENTICATED), the public operations SetProject,   *)
(* SetDbConnection, EnsureAuthenticatedUser, RunSQL and Logica, and the    *)
(* collaborators they call.  One thread runs one operation at a time: pc   *)
(* is the position of the running operation, "idle" between operations.    *)
(*                                                                         *)
(* Text is a sequence of one-character strings ("A,B" is <<"A",",","B">>). *)
(* A SQL script is a sequence of tokens, ";" being the delimiter token.    *)
(***************************************************************************)
EXTENDS Integers, Sequences, FiniteSets, TLC

\* ------------------------------------------------------------------ bounds

\* The most authentication handshakes one behaviour performs.
MaxHandshakes == 2
\* The most statements in a script handed directly to RunSQL.
MaxStatements == 3

\* ------------------------------------------------------------------ values

None == "None"
\* What a failed RunSQL returns: nothing.
NoResult == [none |-> TRUE]

Projects == {"p1", "p2"}
Connections == {"conn"}
Engines == {"bigquery", "psql", "sqlite", "mysql"}
SupportedEngines == {"bigquery", "psql", "sqlite"}

\* The predicates a cell may define.
RuleNames == {<<"A">>, <<"B">>}

\* The lines given to Logica: "", "A", "B", "A,B", " A , B", "B,A", "A,A",
\* "A,A,A".
Lines ==
  { <<>>,
    <<"A">>,
    <<"B">>,
    <<"A", ",", "B">>,
    <<" ", "A", " ", ",", " ", "B">>,
    <<"B", ",", "A">>,
    <<"A", ",", "A">>,
    <<"A", ",", "A", ",", "A">> }

\* A cell: whether it parses, the engine its annotations name, the
\* predicates that compile.
Cells ==
  [parses : {TRUE}, engine : Engines, rules : SUBSET RuleNames]
    \cup {[parses |-> FALSE, engine |-> "psql", rules |-> {}]}

StmtNames == <<"s1", "s2", "s3", "s4", "s5", "s6">>

RECURSIVE Script(_)
\* The script s1;s2;...;sk (no trailing delimiter).
Script(k) ==
  IF k = 0 THEN <<>>
  ELSE IF k = 1 THEN <<StmtNames[1]>>
  ELSE Script(k - 1) \o <<";", StmtNames[k]>>

\* The scripts handed directly to RunSQL, with and without a trailing ";".
Sqls ==
  {Script(k) : k \in 0..MaxStatements}
    \cup {Script(k) \o <<";">> : k \in 1..MaxStatements}

\* What the environment decides during one RunSQL: whether the handshake and
\* the project prompt succeed, what the user types, and which statement of
\* the unit (0: none) the backend rejects.
Envs ==
  [hsOK : BOOLEAN, promptOK : BOOLEAN, promptVal : Projects,
   failAt : 0..MaxStatements]

\* The environments that differ in something RunSQL reads for an engine:
\* only bigquery authenticates, and only sqlite submits more than one
\* statement.
EnvsFor(e) ==
  {env \in Envs :
     /\ e # "bigquery" => env.hsOK /\ env.promptOK /\ env.promptVal = "p1"
     /\ ~env.hsOK => env.promptOK
     /\ ~(env.hsOK /\ env.promptOK) => env.promptVal = "p1"
     /\ e # "sqlite" => env.failAt <= 1}

\* ------------------------------------------------------------- text helpers

RECURSIVE LStrip(_)
LStrip(s) == IF s # <<>> /\ Head(s) = " " THEN LStrip(Tail(s)) ELSE s

RECURSIVE RStrip(_)
RStrip(s) ==
  IF s # <<>> /\ s[Len(s)] = " " THEN RStrip(SubSeq(s, 1, Len(s) - 1)) ELSE s

\* str.strip()
Strip(s) == RStrip(LStrip(s))

RECURSIVE SplitOn(_, _)
\* str.split(d): the fields between the delimiters, at least one field.
SplitOn(s, d) ==
  IF \E i \in 1..Len(s) : s[i] = d
  THEN LET i == CHOOSE i \in 1..Len(s) :
                  s[i] = d /\ \A k \in 1..(i - 1) : s[k] # d
       IN <<SubSeq(s, 1, i - 1)>> \o SplitOn(SubSeq(s, i + 1, Len(s)), d)
  ELSE <<s>>

ParseList(line) ==
  LET l == Strip(line)
      fields == SplitOn(l, ",")
  IN IF l = <<>> THEN <<>>
     ELSE [i \in 1..Len(fields) |-> Strip(fields[i])]

\* parse.SplitRaw: the statements between top-level delimiters; a script
\* ending in the delimiter has no empty last statement.
SplitRaw(s, d) ==
  LET parts == SplitOn(s, d)
  IN IF s = <<>> THEN <<>>
     ELSE IF parts[Len(parts)] = <<>> THEN SubSeq(parts, 1, Len(parts) - 1)
     ELSE parts

\* program.FormattedPredicateSql: the SQL of a predicate that compiles, the
\* same script each time it is asked for.
FormattedPredicateSql(predicate) ==
  IF predicate = <<"A">> THEN <<"a1", ";", "a2", ";", "a3">>
  ELSE <<"b1", ";", "b2", ";">>

\* predicate + '_sql'
SqlKey(predicate) == predicate \o <<"_", "s", "q", "l">>

\* ip.push({key: val}) and dict assignment: the binding of key is replaced.
Push(ns, key, val) ==
  {b \in ns : b.key # key} \cup {[key |-> key, val |-> val]}

Keys(ns) == {b.key : b \in ns}
Lookup(ns, key) == (CHOOSE b \in ns : b.key = key).val

\* ------------------------------------------------- EnsureAuthenticatedUser

\* EnsureAuthenticatedUser without its early return.
EnsureAuthenticatedUserNoGuard(g, env) ==
  IF ~env.hsOK
  THEN [raised |-> "AuthError", PROJECT |-> g.PROJECT,
        USER_AUTHENTICATED |-> g.USER_AUTHENTICATED, hs |-> 1, prompts |-> 0]
  ELSE IF g.PROJECT = None
  THEN IF env.promptOK
       THEN [raised |-> "none", PROJECT |-> env.promptVal,
             USER_AUTHENTICATED |-> TRUE, hs |-> 1, prompts |-> 1]
       ELSE [raised |-> "PromptError", PROJECT |-> g.PROJECT,
             USER_AUTHENTICATED |-> g.USER_AUTHENTICATED, hs |-> 1,
             prompts |-> 1]
  ELSE [raised |-> "none", PROJECT |-> g.PROJECT,
        USER_AUTHENTICATED |-> TRUE, hs |-> 1, prompts |-> 0]

\* EnsureAuthenticatedUser whose early return also wants a project.
EnsureAuthenticatedUserGuardOnProject(g, env) ==
  IF g.USER_AUTHENTICATED /\ g.PROJECT # None
  THEN [raised |-> "none", PROJECT |-> g.PROJECT,
        USER_AUTHENTICATED |-> TRUE, hs |-> 0, prompts |-> 0]
  ELSE EnsureAuthenticatedUserNoGuard(g, env)

\* EnsureAuthenticatedUser that prompts whether or not a project is set.
EnsureAuthenticatedUserAlwaysPrompts(g, env) ==
  IF g.USER_AUTHENTICATED
  THEN [raised |-> "none", PROJECT |-> g.PROJECT,
        USER_AUTHENTICATED |-> TRUE, hs |-> 0, prompts |-> 0]
  ELSE IF ~env.hsOK
  THEN [raised |-> "AuthError", PROJECT |-> g.PROJECT,
        USER_AUTHENTICATED |-> FALSE, hs |-> 1, prompts |-> 0]
  ELSE IF env.promptOK
  THEN [raised |-> "none", PROJECT |-> env.promptVal,
        USER_AUTHENTICATED |-> TRUE, hs |-> 1, prompts |-> 1]
  ELSE [raised |-> "PromptError", PROJECT |-> g.PROJECT,
        USER_AUTHENTICATED |-> FALSE, hs |-> 1, prompts |-> 1]

\* EnsureAuthenticatedUser that swallows the exception of a failed
\* handshake.
EnsureAuthenticatedUserSwallows(g, env) ==
  IF g.USER_AUTHENTICATED
  THEN [raised |-> "none", PROJECT |-> g.PROJECT,
        USER_AUTHENTICATED |-> TRUE, hs |-> 0, prompts |-> 0]
  ELSE IF ~env.hsOK
  THEN [raised |-> "none", PROJECT |-> g.PROJECT,
        USER_AUTHENTICATED |-> FALSE, hs |-> 1, prompts |-> 0]
  ELSE EnsureAuthenticatedUserNoGuard(g, env)

\* EnsureAuthenticatedUser that never asks for a project.
EnsureAuthenticatedUserNoPrompt(g, env) ==
  IF g.USER_AUTHENTICATED
  THEN [raised |-> "none", PROJECT |-> g.PROJECT,
        USER_AUTHENTICATED |-> TRUE, hs |-> 0, prompts |-> 0]
  ELSE IF ~env.hsOK
  THEN [raised |-> "AuthError", PROJECT |-> g.PROJECT,
        USER_AUTHENTICATED |-> FALSE, hs |-> 1, prompts |-> 0]
  ELSE [raised |-> "none", PROJECT |-> g.PROJECT,
        USER_AUTHENTICATED |-> TRUE, hs |-> 1, prompts |-> 0]

\* EnsureAuthenticatedUser from globals g under env: the globals after it,
\* the handshakes and prompts it performed, and the exception it raised.
EnsureAuthenticatedUser(g, env) ==
  IF g.USER_AUTHENTICATED
  THEN [raised |-> "none", PROJECT |-> g.PROJECT,
        USER_AUTHENTICATED |-> TRUE, hs |-> 0, prompts |-> 0]
  ELSE IF ~env.hsOK
  THEN [raised |-> "AuthError", PROJECT |-> g.PROJECT,
        USER_AUTHENTICATED |-> FALSE, hs |-> 1, prompts |-> 0]
  ELSE IF g.PROJECT = None
  THEN IF env.promptOK
       THEN [raised |-> "none", PROJECT |-> env.promptVal,
             USER_AUTHENTICATED |-> TRUE, hs |-> 1, prompts |-> 1]
       ELSE [raised |-> "PromptError", PROJECT |-> g.PROJECT,
             USER_AUTHENTICATED |-> FALSE, hs |-> 1, prompts |-> 1]
  ELSE [raised |-> "none", PROJECT |-> g.PROJECT,
        USER_AUTHENTICATED |-> TRUE, hs |-> 1, prompts |-> 0]

\* ------------------------------------------------------------------ RunSQL

\* One statement handed to a backend: the globals it was sent under and
\* whether the backend accepted it.
Submission(stmt, engine, project, auth, ok) ==
  [sql |-> stmt, engine |-> engine, project |-> project, auth |-> auth,
   ok |-> ok]

\* statements[:-2], as positions of the unit.
EffectPositions(n) == [i \in 1..(IF n > 2 THEN n - 2 ELSE 0) |-> i]

\* The result taken from statements[-1].
ResultPositionLast(n) == IF n >= 1 THEN n ELSE 0

\* The result taken from statements[-2], or from the only statement.
ResultPositionClamped(n) == IF n >= 2 THEN n - 1 ELSE n

\* statements[-2], as a position of the unit (0: no such statement).
ResultPosition(n) == IF n >= 2 THEN n - 1 ELSE 0

\* A loop that swallows the backend's exception and goes on.
SubmittedAll(planned, failAt) == planned

\* Of the positions RunSQL means to submit in order, those it does submit
\* when the backend rejects statement failAt: an exception ends RunSQL.
SubmittedUpTo(planned, failAt) ==
  IF \E p \in 1..Len(planned) : planned[p] = failAt
  THEN SubSeq(planned, 1,
              CHOOSE p \in 1..Len(planned) :
                planned[p] = failAt
                /\ \A k \in 1..(p - 1) : planned[k] # failAt)
  ELSE planned

\* The sqlite branch of RunSQL.
RunSqlite(sql, g, env) ==
  LET statements == SplitRaw(sql, ";")
      n == Len(statements)
      effect == EffectPositions(n)
      r == ResultPosition(n)
      conn == g.DB_CONNECTION
      Sub(pos) == Submission(statements[pos], "sqlite", g.PROJECT,
                             g.USER_AUTHENTICATED, pos # env.failAt)
      Subs(ps) == [i \in 1..Len(ps) |-> Sub(ps[i])]
      base == [PROJECT |-> g.PROJECT,
               USER_AUTHENTICATED |-> g.USER_AUTHENTICATED,
               hs |-> 0, prompts |-> 0]
      Out(o, ps, res) ==
        [out |-> o, subs |-> Subs(ps), result |-> res] @@ base
      Rejected(ps) == \E p \in 1..Len(ps) : ps[p] = env.failAt
  IN IF Len(effect) > 0 /\ conn = None
     THEN Out("NoConnection", <<>>, NoResult)
     ELSE IF r = 0
     THEN Out(IF Rejected(effect) THEN "EngineError" ELSE "IndexError",
              SubmittedUpTo(effect, env.failAt), NoResult)
     ELSE IF conn = None
     THEN Out("NoConnection", <<>>, NoResult)
     ELSE IF Rejected(effect \o <<r>>)
     THEN Out("EngineError", SubmittedUpTo(effect \o <<r>>, env.failAt),
              NoResult)
     ELSE Out("ok", effect \o <<r>>, [of |-> statements[r]])

\* A chain whose last branch is an else: any other engine runs as sqlite.
DispatchElseSqlite(engine) ==
  IF engine = "bigquery" THEN "bigquery"
  ELSE IF engine = "psql" THEN "psql"
  ELSE "sqlite"

\* A chain that compares with 'postgres': psql reaches the final else.
DispatchNoPsql(engine) ==
  IF engine = "bigquery" THEN "bigquery"
  ELSE IF engine = "postgres" THEN "psql"
  ELSE IF engine = "sqlite" THEN "sqlite"
  ELSE "raise"

\* The branch RunSQL takes for an engine.
Dispatch(engine) ==
  IF engine = "bigquery" THEN "bigquery"
  ELSE IF engine = "psql" THEN "psql"
  ELSE IF engine = "sqlite" THEN "sqlite"
  ELSE "raise"

\* Where the exception of an outcome is raised: by the raise statement of
\* RunSQL, by a subscript of the module's own code, or inside a callee.
ErrorOrigin(out) ==
  IF out = "Unsupported" THEN "core"
  ELSE IF out \in {"IndexError", "KeyError"} THEN "subscript"
  ELSE "callee"

\* RunSQL(sql, engine) from globals g under env: its outcome, the table it
\* returns, the statements it submitted, the globals after it and the
\* handshakes and prompts it performed.
RunSQL(sql, engine, g, env) ==
  LET branch == Dispatch(engine)
      a == EnsureAuthenticatedUser(g, env)
      base == [PROJECT |-> g.PROJECT,
               USER_AUTHENTICATED |-> g.USER_AUTHENTICATED,
               hs |-> 0, prompts |-> 0]
      after == [PROJECT |-> a.PROJECT,
                USER_AUTHENTICATED |-> a.USER_AUTHENTICATED,
                hs |-> a.hs, prompts |-> a.prompts]
      ok == env.failAt # 1
  IN CASE branch = "bigquery" ->
            IF a.raised # "none"
            THEN [out |-> a.raised, subs |-> <<>>, result |-> NoResult]
                   @@ after
            ELSE [out |-> IF ok THEN "ok" ELSE "EngineError",
                  subs |-> <<Submission(sql, engine, a.PROJECT,
                                        a.USER_AUTHENTICATED, ok)>>,
                  result |-> IF ok THEN [of |-> sql] ELSE NoResult]
                   @@ after
       [] branch = "psql" ->
            IF g.DB_CONNECTION = None
            THEN [out |-> "NoConnection", subs |-> <<>>,
                  result |-> NoResult] @@ base
            ELSE [out |-> IF ok THEN "ok" ELSE "EngineError",
                  subs |-> <<Submission(sql, engine, g.PROJECT,
                                        g.USER_AUTHENTICATED, ok)>>,
                  result |-> IF ok THEN [of |-> sql] ELSE NoResult]
                   @@ base
       [] branch = "sqlite" -> RunSqlite(sql, g, env)
       [] OTHER ->
            [out |-> "Unsupported", subs |-> <<>>, result |-> NoResult]
              @@ base

\* ------------------------------------------------------------------- state

VARIABLES
  PROJECT,            \* the global PROJECT: None or a project id
  DB_CONNECTION,      \* the global DB_CONNECTION: None or a connection
  USER_AUTHENTICATED, \* the global USER_AUTHENTICATED
  handshakes,         \* calls of auth.authenticate_user so far
  op,                 \* the operation running or just ended ("none": none)
  pc,                 \* its position: idle, compile, execute, bind, done
  outcome,            \* how it ended
  entry,              \* the globals when it started
  predicates,         \* Logica: ParseList(line)
  engine,             \* Logica, RunSQL: the engine
  rules,              \* Logica: the predicates of the cell that compile
  run_query,          \* Logica: the run_query argument
  idx,                \* Logica: the outer loop's position in predicates
  executions,         \* Logica: the queue handed to the executor
  q,                  \* executor: the queue entry it is at
  executing,          \* executor: the request position being executed, or 0
  result_map,         \* executor: predicate name -> table
  errors,             \* executor: the predicates whose execution failed
  j,                  \* Logica: the inner loop's position in predicates
  bound,              \* the names this operation pushed into the session
  submitted,          \* the statements this operation handed to a backend
  execLog,            \* the executions this operation started and finished
  compiled,           \* the request positions this operation compiled
  compileFailedAt,    \* the request position whose compilation failed, or 0
  sql,                \* RunSQL: the sql argument
  returned,           \* RunSQL: the table returned
  callHandshakes,     \* handshakes performed by this operation
  callPrompts         \* project prompts issued by this operation

globals == <<PROJECT, DB_CONNECTION, USER_AUTHENTICATED>>
request == <<predicates, engine, rules, run_query, sql>>
loop == <<idx, executions, q, executing, result_map, errors, j>>
effects == <<bound, submitted, execLog, compiled, compileFailedAt, returned,
             callHandshakes, callPrompts>>
vars == <<globals, handshakes, op, pc, outcome, entry, request, loop,
          effects>>

Globals ==
  [PROJECT |-> PROJECT, DB_CONNECTION |-> DB_CONNECTION,
   USER_AUTHENTICATED |-> USER_AUTHENTICATED]

Snapshot == [auth |-> USER_AUTHENTICATED, project |-> PROJECT]

NoSnapshot == [auth |-> FALSE, project |-> None]

\* Nothing of an operation is in progress or on record.
Cleared ==
  /\ op = "none" /\ outcome = "none" /\ entry = NoSnapshot
  /\ predicates = <<>> /\ engine = "-" /\ rules = {} /\ run_query = FALSE
  /\ sql = <<>>
  /\ idx = 0 /\ executions = <<>> /\ q = 0 /\ executing = 0
  /\ result_map = {} /\ errors = {} /\ j = 0
  /\ bound = {} /\ submitted = <<>> /\ execLog = <<>> /\ compiled = <<>>
  /\ compileFailedAt = 0 /\ returned = NoResult
  /\ callHandshakes = 0 /\ callPrompts = 0

Init ==
  /\ PROJECT = None
  /\ DB_CONNECTION = None
  /\ USER_AUTHENTICATED = FALSE
  /\ handshakes = 0
  /\ pc = "idle"
  /\ Cleared

\* A handshake may still be counted, or none will be performed.
CanHandshake == USER_AUTHENTICATED \/ handshakes < MaxHandshakes

\* ------------------------------------------------------- global setters

\* A SetProject that asks for a new authentication.
SetProjectResetsAuth(project) ==
  /\ pc = "idle"
  /\ PROJECT' = project
  /\ USER_AUTHENTICATED' = FALSE
  /\ UNCHANGED <<DB_CONNECTION, handshakes, op, pc, outcome, entry, request,
                 loop, effects>>

SetProject(project) ==
  /\ pc = "idle"
  /\ PROJECT' = project
  /\ UNCHANGED <<DB_CONNECTION, USER_AUTHENTICATED, handshakes, op, pc,
                 outcome, entry, request, loop, effects>>

SetDbConnection(connection) ==
  /\ pc = "idle"
  /\ DB_CONNECTION' = connection
  /\ UNCHANGED <<PROJECT, USER_AUTHENTICATED, handshakes, op, pc, outcome,
                 entry, request, loop, effects>>

\* A call of EnsureAuthenticatedUser by the user.
EnsureAuthenticatedUserCall ==
  /\ pc = "idle"
  /\ CanHandshake
  /\ \E env \in EnvsFor("bigquery") :
       LET a == EnsureAuthenticatedUser(Globals, env)
       IN /\ PROJECT' = a.PROJECT
          /\ USER_AUTHENTICATED' = a.USER_AUTHENTICATED
          /\ handshakes' = handshakes + a.hs
          /\ callHandshakes' = a.hs
          /\ callPrompts' = a.prompts
          /\ outcome' = IF a.raised = "none" THEN "returned" ELSE a.raised
  /\ op' = "EnsureAuthenticatedUser"
  /\ pc' = "done"
  /\ entry' = Snapshot
  /\ UNCHANGED <<DB_CONNECTION, request, loop, bound, submitted, execLog,
                 compiled, compileFailedAt, returned>>

\* A call of RunSQL by the user.
RunSQLCall(s, e) ==
  /\ pc = "idle"
  /\ e = "bigquery" => CanHandshake
  /\ \E env \in EnvsFor(e) :
       LET r == RunSQL(s, e, Globals, env)
       IN /\ PROJECT' = r.PROJECT
          /\ USER_AUTHENTICATED' = r.USER_AUTHENTICATED
          /\ handshakes' = handshakes + r.hs
          /\ callHandshakes' = r.hs
          /\ callPrompts' = r.prompts
          /\ submitted' = r.subs
          /\ returned' = r.result
          /\ outcome' = IF r.out = "ok" THEN "returned" ELSE r.out
  /\ op' = "RunSQL"
  /\ pc' = "done"
  /\ entry' = Snapshot
  /\ sql' = s
  /\ engine' = e
  /\ UNCHANGED <<DB_CONNECTION, predicates, rules, run_query, loop, bound,
                 execLog, compiled, compileFailedAt>>

\* ------------------------------------------------------------------ Logica

\* A queue built in reverse: the new execution goes in front.
QueueAddFront(queue, execution) == <<execution>> \o queue

\* executions.append(program.execution)
QueueAdd(queue, execution) == Append(queue, execution)

\* A handler that shows the compile error and goes on to the next predicate.
CompileFailureContinues == FALSE

\* The handler of RuleCompileException returns from Logica.
CompileFailureReturns == TRUE

\* concertina_lib.ExecuteLogicaProgram: an adapter failure of these kinds
\* ends the whole queue; any other is recorded against its predicate.
AbortsQueue(out) ==
  out \in {"Unsupported", "NoConnection", "AuthError", "PromptError"}

\* Logica(line, cell, run_query), up to the first iteration of its loop.
LogicaCall(line, cell, rq) ==
  /\ pc = "idle"
  /\ cell.engine = "bigquery" => CanHandshake
  /\ op' = "Logica"
  /\ entry' = Snapshot
  /\ predicates' = ParseList(line)
  /\ run_query' = rq
  /\ IF ~cell.parses
     THEN /\ pc' = "done"
          /\ outcome' = "parse_error"
          /\ UNCHANGED <<engine, rules, idx>>
     ELSE /\ engine' = cell.engine
          /\ rules' = cell.rules
          /\ IF ParseList(line) = <<>>
             THEN pc' = "done" /\ outcome' = "returned" /\ idx' = idx
             ELSE pc' = "compile" /\ outcome' = "running" /\ idx' = 1
  /\ UNCHANGED <<globals, handshakes, sql, executions, q, executing,
                 result_map, errors, j, effects>>

\* One iteration's try block: compile predicates[idx], queue its execution
\* and push its SQL, or show the compile error and return.
Compile ==
  /\ pc = "compile"
  /\ LET predicate == predicates[idx]
         text == FormattedPredicateSql(predicate)
         last == idx = Len(predicates)
     IN /\ compiled' = Append(compiled, idx)
        /\ IF predicate \in rules
           THEN /\ executions' =
                     QueueAdd(executions,
                              [pos |-> idx, predicate |-> predicate,
                               sql |-> text])
                /\ bound' = Push(bound, SqlKey(predicate), [sql |-> text])
                /\ pc' = "execute"
                /\ q' = 1
                /\ result_map' = {}
                /\ errors' = {}
                /\ UNCHANGED <<outcome, idx, compileFailedAt>>
           ELSE /\ compileFailedAt' = idx
                /\ IF CompileFailureReturns \/ last
                   THEN pc' = "done" /\ outcome' = "compile_error"
                        /\ idx' = idx
                   ELSE pc' = "compile" /\ outcome' = outcome
                        /\ idx' = idx + 1
                /\ UNCHANGED <<executions, bound, q, result_map, errors>>
  /\ UNCHANGED <<globals, handshakes, op, entry, request, executing, j,
                 submitted, execLog, returned, callHandshakes, callPrompts>>

\* The executor starts the execution of queue entry q.
ExecStart ==
  /\ pc = "execute"
  /\ executing = 0
  /\ executing' = executions[q].pos
  /\ execLog' = Append(execLog, [ev |-> "start", pos |-> executions[q].pos])
  /\ UNCHANGED <<globals, handshakes, op, pc, outcome, entry, request, idx,
                 executions, q, result_map, errors, j, bound, submitted,
                 compiled, compileFailedAt, returned, callHandshakes,
                 callPrompts>>

\* The executor finishes the execution of queue entry q: the engine adapter
\* has run its SQL. After the last entry the result map is returned.
ExecFinish ==
  /\ pc = "execute"
  /\ executing # 0
  /\ \E env \in EnvsFor(engine) :
       LET e == executions[q]
           r == RunSQL(e.sql, engine, Globals, env)
       IN /\ PROJECT' = r.PROJECT
          /\ USER_AUTHENTICATED' = r.USER_AUTHENTICATED
          /\ handshakes' = handshakes + r.hs
          /\ callHandshakes' = callHandshakes + r.hs
          /\ callPrompts' = callPrompts + r.prompts
          /\ submitted' = submitted \o r.subs
          /\ execLog' = Append(execLog, [ev |-> "finish", pos |-> e.pos])
          /\ IF AbortsQueue(r.out)
             THEN /\ pc' = "done"
                  /\ outcome' = r.out
                  /\ UNCHANGED <<q, result_map, errors, j>>
             ELSE /\ result_map' =
                       IF r.out = "ok"
                       THEN Push(result_map, e.predicate, r.result)
                       ELSE {b \in result_map : b.key # e.predicate}
                  /\ errors' =
                       IF r.out = "ok" THEN errors
                       ELSE errors \cup {e.predicate}
                  /\ outcome' = outcome
                  /\ IF q = Len(executions)
                     THEN pc' = "bind" /\ j' = 1 /\ q' = q
                     ELSE pc' = pc /\ j' = j /\ q' = q + 1
  /\ executing' = 0
  /\ UNCHANGED <<DB_CONNECTION, op, entry, request, idx, executions, bound,
                 compiled, compileFailedAt, returned>>

\* One iteration of the inner loop: push the table of predicates[j]. After
\* the last one the outer loop goes on to its next predicate.
Bind ==
  /\ pc = "bind"
  /\ LET predicate == predicates[j]
     IN IF predicate \in Keys(result_map)
        THEN /\ bound' = Push(bound, predicate, Lookup(result_map, predicate))
             /\ IF j < Len(predicates)
                THEN /\ j' = j + 1
                     /\ UNCHANGED <<pc, idx, outcome>>
                ELSE IF idx < Len(predicates)
                THEN /\ idx' = idx + 1
                     /\ pc' = "compile"
                     /\ UNCHANGED <<j, outcome>>
                ELSE /\ pc' = "done"
                     /\ outcome' = "returned"
                     /\ UNCHANGED <<j, idx>>
        ELSE /\ pc' = "done"
             /\ outcome' = "KeyError"
             /\ UNCHANGED <<bound, j, idx>>
  /\ UNCHANGED <<globals, handshakes, op, entry, request, executions, q,
                 executing, result_map, errors, submitted, execLog, compiled,
                 compileFailedAt, returned, callHandshakes, callPrompts>>

\* The operation has ended; the next one starts from a clean record.
Return ==
  /\ pc = "done"
  /\ pc' = "idle"
  /\ op' = "none" /\ outcome' = "none" /\ entry' = NoSnapshot
  /\ predicates' = <<>> /\ engine' = "-" /\ rules' = {} /\ run_query' = FALSE
  /\ sql' = <<>>
  /\ idx' = 0 /\ executions' = <<>> /\ q' = 0 /\ executing' = 0
  /\ result_map' = {} /\ errors' = {} /\ j' = 0
  /\ bound' = {} /\ submitted' = <<>> /\ execLog' = <<>> /\ compiled' = <<>>
  /\ compileFailedAt' = 0 /\ returned' = NoResult
  /\ callHandshakes' = 0 /\ callPrompts' = 0
  /\ UNCHANGED <<globals, handshakes>>

Next ==
  \/ \E project \in Projects \cup {None} : SetProject(project)
  \/ \E connection \in Connections \cup {None} : SetDbConnection(connection)
  \/ EnsureAuthenticatedUserCall
  \/ \E s \in Sqls, e \in Engines : RunSQLCall(s, e)
  \/ \E line \in Lines, cell \in Cells, rq \in BOOLEAN :
       LogicaCall(line, cell, rq)
  \/ Compile
  \/ ExecStart
  \/ ExecFinish
  \/ Bind
  \/ Return

Spec == Init /\ [][Next]_vars

\* ------------------------------------------------------ claims: vocabulary

Requested == {predicates[i] : i \in 1..Len(predicates)}

\* The names this operation bound to a result table, and to SQL text.
TablesBound == {b.key : b \in {c \in bound : "of" \in DOMAIN c.val}}
SqlBound == {b.key : b \in {c \in bound : "sql" \in DOMAIN c.val}}

LogicaDone == op = "Logica" /\ pc = "done"
RunSQLDone == op = "RunSQL" /\ pc = "done"

\* The request positions whose execution was started, in order of starting.
Started(p) == {a \in 1..Len(execLog) : execLog[a] = [ev |-> "start", pos |-> p]}
Finished(p) ==
  {a \in 1..Len(execLog) : execLog[a] = [ev |-> "finish", pos |-> p]}

\* No engine execution of this call failed.
NoExecutionFailed ==
  /\ errors = {}
  /\ ~AbortsQueue(outcome)
  /\ \A k \in 1..Len(submitted) : submitted[k].ok

\* The unit RunSQL made of its sql argument.
Unit == SplitRaw(sql, ";")

\* ------------------------------------------------------------------ C1

\* C1 (as claimed): a Logica call on a non-empty request whose predicates all
\* compile and whose executions all succeed ends normally with exactly the
\* requested names bound to result tables.
C1_AllRequestedBound ==
  (LogicaDone /\ outcome # "parse_error" /\ predicates # <<>>
     /\ Requested \subseteq rules /\ NoExecutionFailed)
    => (outcome = "returned" /\ TablesBound = Requested)

\* ------------------------------------------------------------------ C2

C3_ExecutedAtMostOnce ==
  op = "Logica" =>
    \A p \in 1..Len(predicates) : Cardinality(Started(p)) <= 1

\* ------------------------------------------------------------------ C4

\* C4 (as claimed): a Logica call whose request holds a predicate that does
\* not compile submits nothing to the backend and binds no result table.
C4_CompileFailureRunsNothing ==
  (LogicaDone /\ outcome # "parse_error"
     /\ \E i \in 1..Len(predicates) : predicates[i] \notin rules)
    => (submitted = <<>> /\ TablesBound = {})

\* ------------------------------------------------------------------ C5

\* C5: once the compilation of the predicate at position i has failed, the
\* Logica call has ended and no position after i was compiled, queued or had
\* its SQL bound.
C5_CompileFailFast ==
  (op = "Logica" /\ compileFailedAt # 0) =>
    /\ pc = "done"
    /\ outcome = "compile_error"
    /\ \A k \in 1..Len(compiled) : compiled[k] <= compileFailedAt
    /\ \A k \in 1..Len(executions) : executions[k].pos < compileFailedAt
    /\ SqlBound \subseteq
         {SqlKey(predicates[k]) : k \in 1..(compileFailedAt - 1)}

\* C5 witness: compilation failed at a position that is followed by a
\* predicate that compiles.
C5_Witness ==
  /\ op = "Logica"
  /\ compileFailedAt # 0
  /\ \E k \in (compileFailedAt + 1)..Len(predicates) : predicates[k] \in rules

\* ------------------------------------------------------------------ C6

\* C6 (as claimed): when the execution of exactly one of several distinct
\* requested predicates fails, the Logica call still attempts every requested
\* position and ends with every other requested predicate bound to its
\* table, the failed one recorded as an error and not bound.
C6_SiblingsStillBound ==
  (LogicaDone /\ Requested \subseteq rules /\ Cardinality(errors) = 1
     /\ Cardinality(Requested) = Len(predicates)
     /\ ~AbortsQueue(outcome))
    => /\ \A i \in 1..Len(predicates) : Started(i) # {}
       /\ Requested \ errors \subseteq TablesBound
       /\ errors \cap TablesBound = {}

\* ------------------------------------------------------------------ C7

\* C7 (as claimed): sqlite RunSQL on a unit of n >= 2 statements, none
\* rejected, submits all n statements once each in order and returns the
\* result of statement n - 1.
C7_EveryStatementSubmitted ==
  (RunSQLDone /\ engine = "sqlite" /\ Len(Unit) >= 2
     /\ outcome = "returned")
    => /\ Len(submitted) = Len(Unit)
       /\ \A k \in 1..Len(submitted) : submitted[k].sql = Unit[k]
       /\ returned = [of |-> Unit[Len(Unit) - 1]]

\* C7 (amended): sqlite RunSQL on a unit of n >= 2 statements, none rejected,
\* submits statements 1..n-1 once each in order, returns the result of
\* statement n - 1, and never submits statement n.
C7_AllButLastSubmitted ==
  (RunSQLDone /\ engine = "sqlite" /\ Len(Unit) >= 2
     /\ outcome = "returned")
    => /\ Len(submitted) = Len(Unit) - 1
       /\ \A k \in 1..Len(submitted) : submitted[k].sql = Unit[k]
       /\ returned = [of |-> Unit[Len(Unit) - 1]]

\* C7 witness: sqlite RunSQL returned from a unit of three statements.
C7_Witness ==
  RunSQLDone /\ engine = "sqlite" /\ Len(Unit) = 3 /\ outcome = "returned"

\* ------------------------------------------------------------------ C8

\* C8: when the backend rejects a statement of a sqlite unit, RunSQL fails
\* and the rejected statement is the last one submitted: the statements
\* submitted are the unit's first ones, in order, up to the rejected one.
C8_AbortAtRejectedStatement ==
  (RunSQLDone /\ engine = "sqlite") =>
    /\ \A k \in 1..Len(submitted) :
         /\ k <= Len(Unit) /\ submitted[k].sql = Unit[k]
         /\ ~submitted[k].ok =>
              /\ k = Len(submitted)
              /\ outcome = "EngineError"
              /\ returned = NoResult

\* C8 witness: the first statement of a unit of three was rejected.
C8_Witness ==
  /\ RunSQLDone /\ engine = "sqlite" /\ Len(Unit) = 3
  /\ submitted # <<>> /\ ~submitted[1].ok

\* ------------------------------------------------------------------ C9

C10_AtMostOneHandshake == handshakes <= 1

\* C10 (amended): a handshake is performed only while USER_AUTHENTICATED is
\* false, one at a time and at most once in an operation; so none follows a
\* successful authentication, and one that fails, or whose project prompt
\* fails, is followed by another in a later call.
C10_HandshakeOnlyWhileUnauthenticated ==
  [][handshakes' # handshakes =>
       /\ ~USER_AUTHENTICATED
       /\ handshakes' = handshakes + 1
       /\ callHandshakes' = 1]_vars

\* C10 witness: a second handshake succeeded after a first that did not.
C10_Witness == handshakes = 2 /\ USER_AUTHENTICATED

\* ------------------------------------------------------------------ C11

\* C11: a call of EnsureAuthenticatedUser (by the user or by RunSQL for
\* bigquery) that starts with USER_AUTHENTICATED true, which only a call that
\* completed successfully sets, performs no handshake, issues no project
\* prompt, raises nothing and leaves USER_AUTHENTICATED and PROJECT as they
\* were.
C11_NoOpOnceAuthenticated ==
  (pc = "done" /\ entry.auth
     /\ (op = "EnsureAuthenticatedUser"
           \/ (op = "RunSQL" /\ engine = "bigquery")))
    => /\ callHandshakes = 0
       /\ callPrompts = 0
       /\ USER_AUTHENTICATED
       /\ PROJECT = entry.project
       /\ outcome \notin {"AuthError", "PromptError"}

\* C11 witness: EnsureAuthenticatedUser was called when already
\* authenticated, after the project had been cleared.
C11_Witness ==
  /\ op = "EnsureAuthenticatedUser" /\ pc = "done" /\ entry.auth
  /\ entry.project = None

\* ------------------------------------------------------------------ C12

\* C12: USER_AUTHENTICATED starts false and no step of any operation takes
\* it from true back to false.
C12_AuthenticatedNeverReverts ==
  /\ ~USER_AUTHENTICATED
  /\ [][USER_AUTHENTICATED => USER_AUTHENTICATED']_vars

\* C12 witness: an operation that started authenticated ended in an error
\* of the engine, the authentication having taken two handshakes.
C12_Witness ==
  /\ pc = "done" /\ entry.auth /\ outcome = "EngineError"
  /\ USER_AUTHENTICATED /\ handshakes = 2

\* ------------------------------------------------------------------ C13

\* C13 (as claimed, its particular case): once USER_AUTHENTICATED is true
\* no step gives PROJECT another project identifier.
C13_ProjectFixedOnceAuthenticated ==
  [][(USER_AUTHENTICATED /\ PROJECT' # None) => PROJECT' = PROJECT]_vars

\* C13 (amended): PROJECT changes only in a SetProject call, which may come
\* at any time and any number of times, also after authentication, or in
\* the one step that authenticates, when no project was configured and the
\* prompt gives one.
C13_ProjectChangesOnlyBySetterOrPrompt ==
  [][PROJECT' # PROJECT =>
       \/ pc = "idle" /\ pc' = "idle"
       \/ /\ PROJECT = None
          /\ PROJECT' \in Projects
          /\ ~USER_AUTHENTICATED
          /\ USER_AUTHENTICATED'
          /\ callPrompts' = callPrompts + 1]_vars

\* C13 witness: authenticated with no project, which only a SetProject
\* after the authentication gives.
C13_Witness == USER_AUTHENTICATED /\ PROJECT = None /\ pc = "idle"

\* ------------------------------------------------------------------ C14

\* C14: every query handed to bigquery is handed over with
\* USER_AUTHENTICATED true, and a RunSQL for bigquery whose handshake or
\* project prompt fails submits nothing and stays unauthenticated.
C14_QueryOnlyWhenAuthenticated ==
  /\ \A k \in 1..Len(submitted) :
       submitted[k].engine = "bigquery" =>
         submitted[k].auth /\ USER_AUTHENTICATED
  /\ (RunSQLDone /\ engine = "bigquery"
        /\ outcome \in {"AuthError", "PromptError"})
       => (submitted = <<>> /\ ~USER_AUTHENTICATED /\ returned = NoResult)
  /\ (RunSQLDone /\ engine = "bigquery" /\ ~USER_AUTHENTICATED)
       => outcome \in {"AuthError", "PromptError"}

\* C14 witness: a RunSQL for bigquery that started unauthenticated submitted
\* its query.
C14_Witness ==
  RunSQLDone /\ engine = "bigquery" /\ ~entry.auth /\ submitted # <<>>

\* ------------------------------------------------------------------ C15

\* C15 (as claimed): with no connection configured, RunSQL for psql fails
\* with a connection-missing error that the module itself raises, and
\* submits nothing.
C15_CoreRaisesConnectionMissing ==
  (RunSQLDone /\ engine = "psql" /\ DB_CONNECTION = None)
    => /\ outcome = "NoConnection"
       /\ ErrorOrigin(outcome) = "core"
       /\ submitted = <<>>

\* C15 (amended): with no connection configured, RunSQL for psql hands the
\* SQL and the None connection to pandas.read_sql without a check of its
\* own; the call fails inside that callee, returns no table and submits
\* nothing.
C15_CalleeFailsWithoutConnection ==
  (RunSQLDone /\ engine = "psql" /\ DB_CONNECTION = None)
    => /\ outcome = "NoConnection"
       /\ ErrorOrigin(outcome) = "callee"
       /\ submitted = <<>>
       /\ returned = NoResult

\* C15 witness: RunSQL for psql ended with no connection configured.
C15_Witness ==
  RunSQLDone /\ engine = "psql" /\ DB_CONNECTION = None /\ sql # <<>>

\* ------------------------------------------------------------------ C16

\* C16 (as claimed): a Logica call with run_query false executes nothing,
\* submits nothing and binds no result table.
C16_NoRunWithoutRunQuery ==
  (op = "Logica" /\ ~run_query)
    => (execLog = <<>> /\ submitted = <<>> /\ TablesBound = {})

\* ------------------------------------------------------------------ C17

\* C17: sqlite RunSQL on a unit of fewer than two statements fails, submits
\* nothing and returns no table.
C17_ShortUnitFails ==
  (RunSQLDone /\ engine = "sqlite" /\ Len(Unit) < 2)
    => /\ outcome = "IndexError"
       /\ submitted = <<>>
       /\ returned = NoResult

\* C17 witness: sqlite RunSQL ended on a one-statement unit, a connection
\* being configured.
C17_Witness ==
  /\ RunSQLDone /\ engine = "sqlite" /\ Len(Unit) = 1
  /\ DB_CONNECTION # None

\* ------------------------------------------------------------------ C18

\* C18 (as claimed): USER_AUTHENTICATED true implies PROJECT is not None,
\* and no query is handed to bigquery without a project.
C18_AuthenticatedImpliesProject ==
  /\ USER_AUTHENTICATED => PROJECT # None
  /\ \A k \in 1..Len(submitted) :
       submitted[k].engine = "bigquery" => submitted[k].project # None

\* C18 (amended): the step that sets USER_AUTHENTICATED leaves PROJECT not
\* None, and afterwards PROJECT becomes None only in a SetProject(None)
\* call, after which a bigquery query is issued without a project.
C18_ProjectSetWhenAuthenticating ==
  [][/\ (~USER_AUTHENTICATED /\ USER_AUTHENTICATED') => PROJECT' # None
     /\ (USER_AUTHENTICATED /\ PROJECT # None /\ PROJECT' = None)
          => (pc = "idle" /\ pc' = "idle" /\ USER_AUTHENTICATED')]_vars

\* C18 witness: EnsureAuthenticatedUser started with no project, prompted
\* for one and authenticated.
C18_Witness ==
  /\ op = "EnsureAuthenticatedUser" /\ pc = "done"
  /\ ~entry.auth /\ entry.project = None
  /\ USER_AUTHENTICATED /\ PROJECT # None /\ callPrompts = 1

====
